---- MODULE Spec2Model ----
(***************************************************************************)
(* Model of the AprilTag tracking node (apriltag_tracking.py): the         *)
(* PIDController class and the timer callback of RobotController that      *)
(* drives two PIDController instances.                                     *)
(*                                                                         *)
(* Numbers.  Errors and timestamps are integers.  Gains are integers in    *)
(* units of 1/GainScale (0.06 is 60).  A controller output is an exact     *)
(* rational [num, den] in lowest terms with den > 0; the value None that   *)
(* control() returns when it falls off its if is NoOutput (den = 0).       *)
(* The node clock is counted in units of 1/ClockHz second.                 *)
(*                                                                         *)
(* The open-loop circle node (go_in_circle.py) has the same attributes     *)
(* start_time, ctrl_msg and publisher as the tracking node and is modelled *)
(* on the same variables, under a specification of its own.                *)
(***************************************************************************)
EXTENDS Integers, Sequences, FiniteSets, TLC

\* ------------------------------------------------------------------ bounds
MaxT == 3          \* largest timestamp handed to control()
MaxKS == 3         \* largest history capacity among the small test controllers
MaxErr == 2        \* largest error handed to control()
MaxDepth == 2      \* largest translation.z the lookup returns
MaxWall == 2       \* largest time.time() reading seen by the callback
MaxClock == 42     \* largest node clock reading, in 1/ClockHz s
MaxStart == 1      \* largest node clock reading at construction
MaxCycles == 4     \* number of timer callbacks explored
MaxCircleClock == 316 \* largest node clock reading of the circle node

\* --------------------------------------------------------------- constants
GainScale == 1000  \* gains are written with three decimals
ClockHz == 10      \* node clock resolution of the model (ticks per second)
DELAY == 40        \* DELAY = 4.0 s, in clock ticks
LonKP == 60
LonKI == 1
LonKD == 50
LonKS == 10
LatKP == 2500
LatKI == 10
LatKD == 200
LatKS == 10
TickUs == 100000   \* one clock tick in microseconds
RevolutionUs == 31415927 \* Duration(seconds=2*pi/0.2), in microseconds, rounded up

\* ------------------------------------------------------------ arithmetic
Abs(x) == IF x < 0 THEN -x ELSE x

RECURSIVE GCD(_, _)
GCD(a, b) == IF b = 0 THEN a ELSE GCD(b, a % b)

\* the rational n/d (d > 0) in lowest terms
Rat(n, d) ==
    LET g == GCD(Abs(n), d)
    IN  [num |-> n \div g, den |-> d \div g]

\* what control() returns when dt <= 0: the function ends without a return
NoOutput == [num |-> 0, den |-> 0]

RECURSIVE SumSeq(_)
SumSeq(s) == IF s = <<>> THEN 0 ELSE Head(s) + SumSeq(Tail(s))

\* the last n elements of s (all of s when it is shorter)
LastN(s, n) ==
    IF n <= 0 THEN <<>>
    ELSE IF Len(s) <= n THEN s
    ELSE SubSeq(s, Len(s) - n + 1, Len(s))

Min(a, b) == IF a <= b THEN a ELSE b

\* ------------------------------------------------------------ PIDController
\* PIDController.__init__
NewPID(kP, kI, kD, kS) ==
    [kP |-> kP, kI |-> kI, kD |-> kD, kS |-> kS,
     err_int |-> 0, err_dif |-> 0, err_prev |-> 0,
     err_hist |-> <<>>, t_prev |-> 0]

\* queue.Queue.full(): 0 < maxsize <= qsize()
QFull(q, maxsize) == 0 < maxsize /\ maxsize <= Len(q)

\* queue.Queue.put() with block=True waits for a free slot when the queue is full
PutBlocks(p) == QFull(p.err_hist, p.kS)

\* dt = t - self.t_prev
Timestep(p, t) == t - p.t_prev

\* if dt > 0.0
Advances(dt) == dt > 0

\* self.err_hist.put(err); self.err_int += err
PutError(p, err) ==
    [p EXCEPT !.err_hist = Append(p.err_hist, err),
              !.err_int = p.err_int + err]

\* Jacket with the oldest error dropped but never subtracted from the integral
JacketKeepsIntegral(p) ==
    IF QFull(p.err_hist, p.kS)
    THEN [p EXCEPT !.err_hist = Tail(p.err_hist)]
    ELSE p

\* Jacket with the oldest error evicted only once the history exceeds kS
JacketOnOverflow(p) ==
    IF Len(p.err_hist) > p.kS
    THEN [p EXCEPT !.err_int = p.err_int - Head(p.err_hist),
                   !.err_hist = Tail(p.err_hist)]
    ELSE p

\* if self.err_hist.full(): self.err_int -= self.err_hist.get()
Jacket(p) ==
    IF QFull(p.err_hist, p.kS)
    THEN [p EXCEPT !.err_int = p.err_int - Head(p.err_hist),
                   !.err_hist = Tail(p.err_hist)]
    ELSE p

\* self.err_dif = (err - self.err_prev)
ErrorDifference(p, err) == err - p.err_prev

\* ControlLaw with the derivative multiplied by dt instead of divided by it
ControlLawTimesDt(p, err, dt) ==
    Rat(p.kP * err + p.kI * p.err_int * dt + p.kD * p.err_dif * dt, GainScale)

\* ControlLaw with the proportional term taken from the previous error
ControlLawStaleError(p, err, dt) ==
    Rat((p.kP * p.err_prev + p.kI * p.err_int * dt) * dt + p.kD * p.err_dif,
        GainScale * dt)

\* u = kP*err + kI*err_int*dt + kD*err_dif/dt, with the gains in 1/GainScale
ControlLaw(p, err, dt) ==
    Rat((p.kP * err + p.kI * p.err_int * dt) * dt + p.kD * p.err_dif,
        GainScale * dt)

\* the controller after the body of the if, up to the control law
Integrate(p, err) ==
    LET q == Jacket(PutError(p, err))
    IN  [q EXCEPT !.err_dif = ErrorDifference(p, err)]

\* Remember with the update of err_prev forgotten
RememberTimeOnly(p, err, t) == [p EXCEPT !.t_prev = t]

\* Remember with the timestep stored in place of the timestamp
RememberTimestep(p, err, t) ==
    [p EXCEPT !.err_prev = err, !.t_prev = t - p.t_prev]

\* self.err_prev = err; self.t_prev = t
Remember(p, err, t) == [p EXCEPT !.err_prev = err, !.t_prev = t]

\* ControlState with the timestamp update placed after the if
ControlStateStampsAlways(p, err, t) ==
    IF Advances(Timestep(p, t))
    THEN Remember(Integrate(p, err), err, t)
    ELSE [p EXCEPT !.t_prev = t]

\* ControlState with the put and the eviction placed before the if
ControlStateIntegratesAlways(p, err, t) ==
    IF Advances(Timestep(p, t))
    THEN Remember(Integrate(p, err), err, t)
    ELSE Jacket(PutError(p, err))

\* the controller state control(err, t) leaves behind
ControlState(p, err, t) ==
    IF Advances(Timestep(p, t))
    THEN Remember(Integrate(p, err), err, t)
    ELSE p

\* ControlOutput with the first sample used only to initialise the timestamp
ControlOutputSkipsFirst(p, err, t) ==
    IF Advances(Timestep(p, t)) /\ p.t_prev > 0
    THEN ControlLaw(Integrate(p, err), err, Timestep(p, t))
    ELSE NoOutput

\* the value control(err, t) returns
ControlOutput(p, err, t) ==
    IF Advances(Timestep(p, t))
    THEN ControlLaw(Integrate(p, err), err, Timestep(p, t))
    ELSE NoOutput

\* control(err, t) never returns: put() waits on a full queue
ControlHangs(p, err, t) == Advances(Timestep(p, t)) /\ PutBlocks(p)

\* ------------------------------------------------------------------- state
VARIABLES
    pid,        \* a PIDController driven directly by control() calls
    arg,        \* the arguments of the latest control() call on pid
    ret,        \* what that call returned
    status,     \* "ready", or "blocked" when a call hangs in put()
    accepted,   \* the errors of the calls with dt > 0, oldest first
    start_time, \* self.start_time, node clock at construction
    clock,      \* latest reading of self.get_clock().now()
    wall,       \* latest reading of time.time()
    pid_lon,    \* self.pid_lon
    pid_lat,    \* self.pid_lat
    ctrl_msg,   \* self.ctrl_msg
    sink,       \* the messages published on /cmd_vel, oldest first
    spin,       \* "spinning"; "raised" once an exception left the callback;
                \* "blocked" once the callback hangs in put()
    report,     \* what the latest callback did
    cycle,      \* number of callbacks started
    lookups,    \* number of lookup_transform() calls
    found,      \* number of lookup_transform() calls that returned a transform
    lon_calls,  \* number of pid_lon.control() calls
    lat_calls,  \* number of pid_lat.control() calls
    tf,         \* translation of the latest transform the lookup returned
    increasing  \* TRUE while every time.time() reading was positive and
                \* greater than the one before it

pidvars == <<pid, arg, ret, status, accepted>>

loopvars == <<start_time, clock, wall, pid_lon, pid_lat, ctrl_msg, sink, spin,
              report, cycle, lookups, found, lon_calls, lat_calls,
              tf, increasing>>

vars == <<pid, arg, ret, status, accepted, start_time, clock, wall,
          pid_lon, pid_lat, ctrl_msg, sink, spin, report, cycle, lookups, found,
          lon_calls, lat_calls, tf, increasing>>

Errors == -1 .. MaxErr
Timestamps == -1 .. MaxT

\* the gain tuples of the two controllers the node builds, and small ones
LonGains == <<LonKP, LonKI, LonKD, LonKS>>
LatGains == <<LatKP, LatKI, LatKD, LatKS>>
Gains ==
    {LonGains}
    \cup {<<GainScale, 0, 0, k>> : k \in 1 .. MaxKS}
    \cup {<<LonKP, LonKI, LonKD, k>> : k \in 1 .. MaxKS}

NoCall == [err |-> 0, t |-> 0]

\* Twist(): all fields 0.0
NewTwist == [linear_x |-> Rat(0, 1), angular_z |-> Rat(0, 1)]

\* no transform looked up yet
NoTransform == [x |-> 0, z |-> 0]

\* RobotController.__init__ with the node clock reading s
NodeInit(s) ==
    /\ start_time = s
    /\ clock = s
    /\ wall = 0
    /\ pid_lon = NewPID(LonKP, LonKI, LonKD, LonKS)
    /\ pid_lat = NewPID(LatKP, LatKI, LatKD, LatKS)
    /\ ctrl_msg = NewTwist
    /\ sink = <<>>
    /\ spin = "spinning"
    /\ report = "none"
    /\ cycle = 0
    /\ lookups = 0
    /\ found = 0
    /\ lon_calls = 0
    /\ lat_calls = 0
    /\ tf = NoTransform
    /\ increasing = TRUE

\* a PIDController under test, not yet called
HarnessInit(g) ==
    /\ pid = NewPID(g[1], g[2], g[3], g[4])
    /\ arg = NoCall
    /\ ret = NoOutput
    /\ status = "ready"
    /\ accepted = <<>>

InitPID ==
    /\ \E g \in Gains : HarnessInit(g)
    /\ NodeInit(0)

\* one call pid.control(err, t)
Control(err, t) ==
    /\ status = "ready"
    /\ arg' = [err |-> err, t |-> t]
    /\ IF ControlHangs(pid, err, t)
       THEN /\ status' = "blocked"
            /\ UNCHANGED <<pid, ret, accepted>>
       ELSE /\ pid' = ControlState(pid, err, t)
            /\ ret' = ControlOutput(pid, err, t)
            /\ accepted' = IF Advances(Timestep(pid, t))
                           THEN Append(accepted, err) ELSE accepted
            /\ status' = "ready"
    /\ UNCHANGED loopvars

NextPID == \E err \in Errors, t \in Timestamps : Control(err, t)

SpecPID == InitPID /\ [][NextPID]_vars

\* --------------------------------------------------------- RobotController
\* the readings the callback can take
ClockReadings == 0 .. MaxClock
WallReadings == 0 .. MaxWall
\* translation.x and translation.z of a transform the lookup returns
TransX == {-1, 1}
TransZ == 1 .. MaxDepth

\* WarmedUp with the node clock compared to the delay without the start time
WarmedUpIgnoresStart(now) == now > DELAY

\* WarmedUp with the comparison made inclusive
WarmedUpInclusive(now) == now - start_time >= DELAY

\* self.get_clock().now() - self.start_time > Duration(seconds=DELAY)
WarmedUp(now) == now - start_time > DELAY

\* lon_error = tf2_msg.transform.translation.z
LonError(z) == z

\* LatError without the sign inversion
LatErrorNotInverted(x) == x

\* lat_error = -tf2_msg.transform.translation.x
LatError(x) == 0 - x

\* the timer fires while the node spins; the node clock does not run backwards
TimerFires(now) ==
    /\ spin = "spinning"
    /\ cycle < MaxCycles
    /\ now >= clock
    /\ clock' = now
    /\ cycle' = cycle + 1
    /\ UNCHANGED <<start_time>>
    /\ UNCHANGED pidvars

\* the else branch: print('Initializing...')
Initializing(now) ==
    /\ TimerFires(now)
    /\ ~WarmedUp(now)
    /\ report' = "initializing"
    /\ UNCHANGED <<wall, pid_lon, pid_lat, ctrl_msg, sink, spin, lookups, found,
                   lon_calls, lat_calls, tf, increasing>>

\* NoMarker with the stale command published again before returning
NoMarkerRepublishes(now) ==
    /\ TimerFires(now)
    /\ WarmedUp(now)
    /\ lookups' = lookups + 1
    /\ report' = "no_marker"
    /\ sink' = Append(sink, ctrl_msg)
    /\ UNCHANGED <<wall, pid_lon, pid_lat, ctrl_msg, spin, found,
                   lon_calls, lat_calls, tf, increasing>>

\* NoMarker with the warm-up started again when the marker is lost
NoMarkerRearmsGate(now) ==
    /\ spin = "spinning"
    /\ cycle < MaxCycles
    /\ now >= clock
    /\ WarmedUp(now)
    /\ clock' = now
    /\ cycle' = cycle + 1
    /\ start_time' = now
    /\ lookups' = lookups + 1
    /\ report' = "no_marker"
    /\ UNCHANGED pidvars
    /\ UNCHANGED <<wall, pid_lon, pid_lat, ctrl_msg, sink, spin, found,
                   lon_calls, lat_calls, tf, increasing>>

\* lookup_transform raises TransformException: print and return
NoMarker(now) ==
    /\ TimerFires(now)
    /\ WarmedUp(now)
    /\ lookups' = lookups + 1
    /\ report' = "no_marker"
    /\ UNCHANGED <<wall, pid_lon, pid_lat, ctrl_msg, sink, spin, found,
                   lon_calls, lat_calls, tf, increasing>>

\* the timestamp handed to pid_lon.control(): tstamp, sampled once
LonStamp(tstamp) == tstamp

\* LatStamp with time.time() read again for the second call
LatStampReadAgain(tstamp) == tstamp + 1

\* the timestamp handed to pid_lat.control(): the same tstamp
LatStamp(tstamp) == tstamp

\* lookup_transform returns a transform with translation (x, _, z), and
\* time.time() returns tstamp.  Storing None in a float field of Twist
\* raises (the setter asserts the type of the value), and the exception
\* leaves the callback and ends spin().
Track(now, x, z, tstamp) ==
    LET LIN_VEL == ControlOutput(pid_lon, LonError(z), LonStamp(tstamp))
        ANG_VEL == ControlOutput(pid_lat, LatError(x), LatStamp(tstamp))
    IN  /\ TimerFires(now)
        /\ WarmedUp(now)
        /\ lookups' = lookups + 1
        /\ found' = found + 1
        /\ tf' = [x |-> x, z |-> z]
        /\ wall' = tstamp
        /\ increasing' = (increasing /\ tstamp > wall)
        /\ lon_calls' = lon_calls + 1
        /\ IF ControlHangs(pid_lon, LonError(z), LonStamp(tstamp))
           THEN /\ spin' = "blocked"
                /\ report' = "blocked"
                /\ UNCHANGED <<pid_lon, pid_lat, lat_calls, ctrl_msg, sink>>
           ELSE /\ pid_lon' = ControlState(pid_lon, LonError(z), LonStamp(tstamp))
                /\ lat_calls' = lat_calls + 1
                /\ IF ControlHangs(pid_lat, LatError(x), LatStamp(tstamp))
                   THEN /\ spin' = "blocked"
                        /\ report' = "blocked"
                        /\ UNCHANGED <<pid_lat, ctrl_msg, sink>>
                   ELSE /\ pid_lat' = ControlState(pid_lat, LatError(x),
                                                   LatStamp(tstamp))
                        /\ IF LIN_VEL = NoOutput
                           THEN /\ spin' = "raised"
                                /\ report' = "raised"
                                /\ UNCHANGED <<ctrl_msg, sink>>
                           ELSE IF ANG_VEL = NoOutput
                           THEN /\ spin' = "raised"
                                /\ report' = "raised"
                                /\ ctrl_msg' = [ctrl_msg EXCEPT !.linear_x = LIN_VEL]
                                /\ UNCHANGED sink
                           ELSE /\ ctrl_msg' = [linear_x |-> LIN_VEL,
                                                angular_z |-> ANG_VEL]
                                /\ sink' = Append(sink, ctrl_msg')
                                /\ report' = "deviation"
                                /\ UNCHANGED spin

\* one run of robot_controller_callback
robot_controller_callback ==
    \E now \in ClockReadings :
        \/ Initializing(now)
        \/ NoMarker(now)
        \/ \E x \in TransX, z \in TransZ, tstamp \in WallReadings :
               Track(now, x, z, tstamp)

InitLoop ==
    /\ HarnessInit(LonGains)
    /\ \E s \in 0 .. MaxStart : NodeInit(s)

NextLoop == robot_controller_callback

SpecLoop == InitLoop /\ [][NextLoop]_vars

\* ------------------------------------------------ go_in_circle.py node
\* LIN_VEL = 0.5 and ANG_VEL = 0.2
CircleTwist == [linear_x |-> Rat(5, 10), angular_z |-> Rat(2, 10)]

\* RobotController.__init__ of the circle node with the node clock reading s;
\* the node has no controllers, no transform buffer and no wall clock
CircleInit(s) ==
    /\ start_time = s
    /\ clock = s
    /\ ctrl_msg = NewTwist
    /\ sink = <<>>
    /\ spin = "spinning"
    /\ report = "none"
    /\ cycle = 0
    /\ wall = 0
    /\ pid_lon = NewPID(LonKP, LonKI, LonKD, LonKS)
    /\ pid_lat = NewPID(LatKP, LatKI, LatKD, LatKS)
    /\ lookups = 0
    /\ found = 0
    /\ lon_calls = 0
    /\ lat_calls = 0
    /\ tf = NoTransform
    /\ increasing = TRUE

\* self.get_clock().now() - self.start_time < Duration(seconds=(2*pi/ANG_VEL))
Revolving(now) == (now - start_time) * TickUs < RevolutionUs

\* go_in_circle_callback with quit() missing: the else branch falls through
\* to the publish
go_in_circle_callback_no_quit(now) ==
    /\ spin = "spinning"
    /\ cycle < MaxCycles
    /\ now >= clock
    /\ clock' = now
    /\ cycle' = cycle + 1
    /\ IF Revolving(now)
       THEN /\ ctrl_msg' = CircleTwist
            /\ report' = "circle"
       ELSE /\ report' = "stopped"
            /\ UNCHANGED ctrl_msg
    /\ sink' = Append(sink, ctrl_msg')
    /\ UNCHANGED spin
    /\ UNCHANGED pidvars
    /\ UNCHANGED <<start_time, wall, pid_lon, pid_lat, lookups, found,
                   lon_calls, lat_calls, tf, increasing>>

\* one run of robot_controller_callback of the circle node at clock reading
\* now: quit() raises SystemExit, which leaves the callback before the publish
go_in_circle_callback(now) ==
    /\ spin = "spinning"
    /\ cycle < MaxCycles
    /\ now >= clock
    /\ clock' = now
    /\ cycle' = cycle + 1
    /\ IF Revolving(now)
       THEN /\ ctrl_msg' = CircleTwist
            /\ sink' = Append(sink, ctrl_msg')
            /\ report' = "circle"
            /\ UNCHANGED spin
       ELSE /\ spin' = "quit"
            /\ report' = "quit"
            /\ UNCHANGED <<ctrl_msg, sink>>
    /\ UNCHANGED pidvars
    /\ UNCHANGED <<start_time, wall, pid_lon, pid_lat, lookups, found,
                   lon_calls, lat_calls, tf, increasing>>

CircleReadings == 0 .. MaxCircleClock

InitCircle ==
    /\ HarnessInit(LonGains)
    /\ \E s \in 0 .. MaxStart : CircleInit(s)

NextCircle == \E now \in CircleReadings : go_in_circle_callback(now)

SpecCircle == InitCircle /\ [][NextCircle]_vars

\* ------------------------------------- properties of PIDController.control
\* the step is a control() call that was handed a non-advancing timestamp
RejectedCall == arg'.t - pid.t_prev <= 0

\* the step is a control() call that was handed an advancing timestamp
AcceptedCall == arg'.t - pid.t_prev > 0

\* C1: a call control(err, t) with t - previousTimestamp <= 0 returns
\* NoOutput and leaves the history, the integral, the previous error, the
\* previous timestamp and the error difference unchanged.
C1_RejectedCallIsNoOp ==
    [][RejectedCall =>
         /\ ret' = NoOutput
         /\ pid'.err_hist = pid.err_hist
         /\ pid'.err_int = pid.err_int
         /\ pid'.err_prev = pid.err_prev
         /\ pid'.t_prev = pid.t_prev
         /\ pid'.err_dif = pid.err_dif
         /\ status' = "ready"]_vars

\* an out-of-order call was rejected after some call had been accepted
C1_Witness ==
    /\ accepted # <<>>
    /\ arg.t < pid.t_prev
    /\ arg.err # pid.err_prev
    /\ ret = NoOutput

\* C2: the integral equals the sum of the errors held in the history, in
\* the initial state and after every call.
C2_IntegralIsHistorySum == pid.err_int = SumSeq(pid.err_hist)

\* an error has been evicted and the remaining history has a nonzero sum
C2_Witness ==
    /\ Len(accepted) > Len(pid.err_hist)
    /\ Len(pid.err_hist) >= 1
    /\ pid.err_int # 0
    /\ Head(accepted) # 0

\* C3 (as claimed): after n accepted calls the integral is the sum of the
\* last min(n, kS) accepted errors.
C3_IntegralIsLastKS ==
    pid.err_int = SumSeq(LastN(accepted, Min(Len(accepted), pid.kS)))

\* C4 (as claimed): the first kS accepted calls evict nothing, and after the
\* (kS+1)th the history holds the kS most recent errors in arrival order.
C4_EvictionAtKSPlusOne ==
    /\ Len(accepted) <= pid.kS => pid.err_hist = accepted
    /\ Len(accepted) = pid.kS + 1 => pid.err_hist = LastN(accepted, pid.kS)

\* C5: an accepted call returns kP*err + kI*integralSum*dt
\* + kD*(err - previousError)/dt, with integralSum taken after this call's
\* append and eviction and previousError before the call; with the
\* longitudinal gains a fresh controller returns 0.222 for control(2, 1) and
\* 0.124 for the following control(2, 2).
C5_ControlLaw ==
    [][/\ AcceptedCall =>
            LET dt == arg'.t - pid.t_prev
                e == arg'.err
            IN  /\ ret'.den > 0
                /\ ret'.num * GainScale * dt
                     = ret'.den * ((pid.kP * e + pid.kI * pid'.err_int * dt) * dt
                                   + pid.kD * (e - pid.err_prev))
       /\ (pid = NewPID(LonKP, LonKI, LonKD, LonKS) /\ arg' = [err |-> 2, t |-> 1])
            => ret' = [num |-> 111, den |-> 500]
       /\ (/\ pid = ControlState(NewPID(LonKP, LonKI, LonKD, LonKS), 2, 1)
           /\ arg' = [err |-> 2, t |-> 2])
            => ret' = [num |-> 31, den |-> 250]]_vars

\* the second call of the scenario has returned 0.124
C5_Witness ==
    /\ <<pid.kP, pid.kI, pid.kD, pid.kS>> = LonGains
    /\ accepted = <<2, 2>>
    /\ pid.t_prev = 2
    /\ arg = [err |-> 2, t |-> 2]
    /\ ret = [num |-> 31, den |-> 250]

\* C6: with kP = 1, kI = 0, kD = 0 an accepted call control(e, t) returns
\* exactly e, whatever the calls before it.
C6_UnitGainReturnsError ==
    [][(AcceptedCall /\ pid.kP = GainScale /\ pid.kI = 0 /\ pid.kD = 0)
         => ret' = [num |-> arg'.err, den |-> 1]]_vars

\* a unit-gain controller with some history returned a nonzero error that
\* differs from the one before it
C6_Witness ==
    /\ pid.kP = GainScale /\ pid.kI = 0 /\ pid.kD = 0
    /\ Len(accepted) >= 3
    /\ accepted[Len(accepted)] # accepted[Len(accepted) - 1]
    /\ arg.t = pid.t_prev
    /\ arg.err # 0
    /\ ret = [num |-> arg.err, den |-> 1]

\* C7: an accepted call whose error equals the error of the accepted call
\* before it has error difference 0 and returns kP*e + kI*integralSum*dt.
C7_SameErrorNoDerivative ==
    [][(AcceptedCall /\ accepted # <<>> /\ arg'.err = accepted[Len(accepted)])
         => /\ pid'.err_dif = 0
            /\ ret' = Rat(pid.kP * arg'.err
                            + pid.kI * pid'.err_int * (arg'.t - pid.t_prev),
                          GainScale)]_vars

\* the same nonzero error was accepted twice in a row by a controller with a
\* derivative gain
C7_Witness ==
    /\ pid.kD # 0
    /\ Len(accepted) >= 2
    /\ accepted[Len(accepted)] = accepted[Len(accepted) - 1]
    /\ accepted[Len(accepted)] # 0
    /\ pid.err_dif = 0
    /\ arg.t = pid.t_prev
    /\ ret # NoOutput

\* ------------------------------------------ properties of the tracking loop
\* the step is a callback whose lookup_transform() call raised
LookupFailed == lookups' = lookups + 1 /\ found' = found

\* C8: an Active cycle whose pose lookup fails calls neither controller,
\* changes neither controller, publishes nothing and returns normally; as
\* long as no lookup has succeeded the sink is empty and the node spins.
C8_LookupFailureIsSilent ==
    /\ [](found = 0 => (sink = <<>> /\ spin = "spinning"))
    /\ [][LookupFailed =>
            /\ lon_calls' = lon_calls
            /\ lat_calls' = lat_calls
            /\ pid_lon' = pid_lon
            /\ pid_lat' = pid_lat
            /\ sink' = sink
            /\ spin' = "spinning"]_vars

\* a lookup failed after an earlier cycle had published, and failed twice
C8_Witness ==
    /\ report = "no_marker"
    /\ sink # <<>>
    /\ pid_lon.err_hist # <<>>
    /\ lookups - found >= 2

\* C9: while no lookup has succeeded the sink has received nothing, and
\* after the first successful lookup, made with a positive time.time()
\* reading, it has received exactly one command.
C9_FirstSuccessPublishes ==
    /\ found = 0 => Len(sink) = 0
    /\ (found = 1 /\ wall > 0) => (Len(sink) = 1 /\ spin = "spinning")

\* the lookup failed three times and then succeeded, and the callback of the
\* fourth Active cycle has published
C9_Witness ==
    /\ lookups = 4
    /\ found = 1
    /\ wall > 0
    /\ report = "deviation"
    /\ Len(sink) = 1

\* C10: a cycle whose elapsed time does not exceed the warm-up delay does
\* not query the pose provider, calls and changes no controller and
\* publishes nothing; with the start at 0 the cycle at 4.1 s does query.
C10_WarmUpIsNoOp ==
    [][/\ (cycle' = cycle + 1 /\ clock' - start_time <= DELAY) =>
            /\ report' = "initializing"
            /\ lookups' = lookups
            /\ lon_calls' = lon_calls
            /\ lat_calls' = lat_calls
            /\ pid_lon' = pid_lon
            /\ pid_lat' = pid_lat
            /\ ctrl_msg' = ctrl_msg
            /\ sink' = sink
       /\ (cycle' = cycle + 1 /\ start_time = 0 /\ clock' = DELAY + 1) =>
            lookups' = lookups + 1]_vars

\* with the start at 0, two cycles were no-ops, the later one with the
\* elapsed time equal to the delay
C10_Witness ==
    /\ start_time = 0
    /\ clock = DELAY
    /\ cycle = 2
    /\ report = "initializing"
    /\ lookups = 0

\* C11 (as claimed): every cycle whose elapsed time is greater than or equal
\* to the warm-up delay queries the pose provider, the cycle at which the
\* elapsed time equals the delay included.
C11_ActiveFromDelay ==
    [][(cycle' = cycle + 1 /\ clock' - start_time >= DELAY)
         => lookups' = lookups + 1]_vars

\* C11 (amended): every cycle whose elapsed time is strictly greater than the
\* warm-up delay queries the pose provider; the cycle at which the elapsed
\* time equals the delay is still an "initializing" no-op.
C11_ActivePastDelay ==
    [][/\ (cycle' = cycle + 1 /\ clock' - start_time > DELAY) =>
            (lookups' = lookups + 1 /\ report' # "initializing")
       /\ (cycle' = cycle + 1 /\ clock' - start_time = DELAY) =>
            (lookups' = lookups /\ report' = "initializing")]_vars

\* a node built at clock reading 1 has queried the pose provider in the cycle
\* right past the delay, after at least one earlier cycle
C11_Witness ==
    /\ start_time = 1
    /\ clock = start_time + DELAY + 1
    /\ cycle >= 2
    /\ lookups = 1
    /\ report # "initializing"

\* the step is a callback whose lookup succeeded and whose time.time()
\* reading does not advance a controller's previous timestamp
StaleCycle ==
    /\ found' = found + 1
    /\ (wall' - pid_lon.t_prev <= 0 \/ wall' - pid_lat.t_prev <= 0)

\* C12 (as claimed): an Active cycle whose lookup succeeds but in which a
\* controller returns NoOutput hands no command to the sink, writes no
\* NoOutput into the command, lets no error leave the callback, and the loop
\* goes on.
C12_NoOutputSuppressesPublish ==
    [][StaleCycle =>
         /\ sink' = sink
         /\ ctrl_msg'.linear_x # NoOutput
         /\ ctrl_msg'.angular_z # NoOutput
         /\ spin' = "spinning"]_vars

\* C13: while the time.time() readings are positive and strictly increasing,
\* every cycle whose lookup succeeds publishes exactly one command, made of
\* the longitudinal output for error translation.z and the lateral output
\* for error -translation.x, and the sink holds one command per successful
\* lookup.
C13_SuccessPublishesOutputs ==
    /\ [](increasing => Len(sink) = found)
    /\ [][(found' = found + 1 /\ increasing') =>
            LET lin == ControlOutput(pid_lon, tf'.z, wall')
                ang == ControlOutput(pid_lat, 0 - tf'.x, wall')
            IN  /\ lin # NoOutput
                /\ ang # NoOutput
                /\ sink' = Append(sink, [linear_x |-> lin, angular_z |-> ang])]_vars

\* two successful cycles with increasing readings have published two
\* commands, the second for a marker to the right after a failed lookup
C13_Witness ==
    /\ increasing
    /\ found = 2
    /\ lookups = 3
    /\ Len(sink) = 2
    /\ tf.x = 1
    /\ sink[2].angular_z.num < 0
    /\ report = "deviation"

\* C15: control() never blocks in put(): the history holds fewer than kS
\* errors whenever a call starts, so every accepted call runs to completion.
C15_PutNeverBlocks ==
    /\ status = "ready"
    /\ Len(pid.err_hist) < pid.kS

\* a controller of capacity 2 or more has accepted more than kS errors and
\* the latest call was accepted
C15_Witness ==
    /\ pid.kS >= 2
    /\ Len(accepted) > pid.kS
    /\ Len(pid.err_hist) = pid.kS - 1
    /\ arg.t = pid.t_prev
    /\ ret # NoOutput
    /\ status = "ready"

\* C16: the two controllers of the loop always have the same previous
\* timestamp and the same history size, so in every cycle they see the same
\* dt and either both return a number or both return NoOutput.
C16_AxesInStep ==
    /\ [](/\ pid_lon.t_prev = pid_lat.t_prev
          /\ Len(pid_lon.err_hist) = Len(pid_lat.err_hist)
          /\ lon_calls = lat_calls)
    /\ [][found' = found + 1 =>
            /\ Timestep(pid_lon, wall') = Timestep(pid_lat, wall')
            /\ (ControlOutput(pid_lon, tf'.z, wall') = NoOutput)
                 <=> (ControlOutput(pid_lat, 0 - tf'.x, wall') = NoOutput)]_vars

\* both controllers have accepted two samples at the same timestamps
C16_Witness ==
    /\ found = 2
    /\ pid_lon.t_prev = 2
    /\ pid_lat.t_prev = 2
    /\ Len(pid_lon.err_hist) = 2
    /\ Len(pid_lat.err_hist) = 2
    /\ pid_lon.err_prev # 0 - pid_lat.err_prev

\* C17 (as claimed): in a cycle where control() returns NoOutput the sample
\* has still been appended to the history and added to the integral, with
\* eviction applied.
C17_StaleSampleIsKept ==
    [][StaleCycle =>
         /\ pid_lon'.err_hist = Jacket(PutError(pid_lon, tf'.z)).err_hist
         /\ pid_lon'.err_int = Jacket(PutError(pid_lon, tf'.z)).err_int
         /\ pid_lat'.err_hist = Jacket(PutError(pid_lat, 0 - tf'.x)).err_hist
         /\ pid_lat'.err_int = Jacket(PutError(pid_lat, 0 - tf'.x)).err_int]_vars

\* C17 (amended): in a cycle where control() returns NoOutput both
\* controllers are left exactly as they were; the sample is neither appended
\* to the history nor added to the integral, and no command is emitted.
C17_StaleSampleIsDropped ==
    [][StaleCycle =>
         /\ pid_lon' = pid_lon
         /\ pid_lat' = pid_lat
         /\ sink' = sink]_vars

\* after an accepted sample, a cycle with a reading that did not advance
\* brought a different longitudinal error, which the controller does not hold
C17_Witness ==
    /\ pid_lon.err_hist # <<>>
    /\ wall <= pid_lon.t_prev
    /\ lon_calls = Len(pid_lon.err_hist) + 1
    /\ tf.z # pid_lon.err_prev
    /\ pid_lon.err_int = SumSeq(pid_lon.err_hist)

\* C18: once a cycle has queried the pose provider every later cycle does
\* (the loop never reports "initializing" again), and after a failed lookup
\* or a publish the node still spins.
C18_GateIsOneShot ==
    [][/\ (cycle' = cycle + 1 /\ lookups >= 1) =>
            (lookups' = lookups + 1 /\ report' # "initializing")
       /\ (cycle' = cycle + 1 /\ report' \in {"no_marker", "deviation"}) =>
            spin' = "spinning"]_vars

\* one warm-up cycle was followed by three Active ones, the last of which
\* published after a failed lookup
C18_Witness ==
    /\ cycle = 4
    /\ lookups = 3
    /\ found < lookups
    /\ report = "deviation"
    /\ spin = "spinning"

\* C19: the previous timestamp never decreases: an accepted call raises it
\* to the call's timestamp and stores the call's error, a rejected call
\* leaves both alone, and before any accepted call both are 0.
C19_TimestampMonotone ==
    /\ [](/\ accepted = <<>> => (pid.t_prev = 0 /\ pid.err_prev = 0)
          /\ accepted # <<>> => pid.err_prev = accepted[Len(accepted)])
    /\ [][/\ pid'.t_prev >= pid.t_prev
          /\ AcceptedCall =>
               /\ pid'.t_prev = arg'.t
               /\ pid'.t_prev > pid.t_prev
               /\ pid'.err_prev = arg'.err
          /\ RejectedCall =>
               /\ pid'.t_prev = pid.t_prev
               /\ pid'.err_prev = pid.err_prev]_vars

\* after two accepted calls a call with an earlier positive timestamp was
\* rejected
C19_Witness ==
    /\ Len(accepted) >= 2
    /\ arg.t > 0
    /\ arg.t < pid.t_prev
    /\ ret = NoOutput
    /\ pid.err_prev = accepted[Len(accepted)]

\* ------------------------------------------- properties of the circle node
\* C20: a cycle with elapsed time below one revolution (31.4159 s) publishes
\* the command (0.5, 0.2); the first cycle at or past one revolution stops
\* the node without publishing; nothing is published afterwards and nothing
\* but (0.5, 0.2) is ever published.
C20_CircleThenQuit ==
    /\ [](\A i \in 1 .. Len(sink) :
            sink[i] = [linear_x |-> [num |-> 1, den |-> 2],
                       angular_z |-> [num |-> 1, den |-> 5]])
    /\ [][/\ (cycle' = cycle + 1 /\ clock' - start_time <= 314) =>
               /\ Len(sink') = Len(sink) + 1
               /\ spin' = "spinning"
          /\ (cycle' = cycle + 1 /\ clock' - start_time >= 315) =>
               /\ sink' = sink
               /\ spin' = "quit"
          /\ spin # "spinning" => sink' = sink]_vars

\* two cycles published and the third, 31.5 s after the start, stopped the
\* node
C20_Witness ==
    /\ spin = "quit"
    /\ cycle = 3
    /\ clock - start_time = 315
    /\ Len(sink) = 2

====
